---- MODULE Spec2Model ----
(***************************************************************************)
(* Virtual memory manager: segmentation over demand paging with FIFO and   *)
(* LRU replacement (src/virtual_memory_manager.cpp).                       *)
(*                                                                         *)
(* The state is main()'s inputs, the fields of VirtualMemoryManager, the   *)
(* last call's console report and a few history variables used only by the *)
(* properties.  main() hands the numbers it reads to the constructor       *)
(* unchecked, so every triple (memSize, pageSize, nSegments) is a possible *)
(* configuration, including those on which the code divides by zero or     *)
(* indexes pageTable one entry past its end.  Where the code's behaviour   *)
(* is undefined the model branches over what a build does: the process is  *)
(* killed, or it goes on with whatever the hardware or the memory yields.  *)
(***************************************************************************)
EXTENDS Integers, Sequences, FiniteSets

\* ------------------------------------------------------------- bounds
MaxMem == 5
MaxPageSz == 2
MaxSegs == 2
MaxAccesses == 4

\* ReplacementPolicy
FIFO == "FIFO"
LRU == "LRU"

VARIABLES
    phase,        \* "config": main() has read its inputs; "running": the
                  \* engine is constructed; "crashed": the process was killed
    inMemSize,    \* main(): memSize as read
    inPageSize,   \* main(): pageSize as read
    inSegs,       \* main(): nSegments as read (segNames.size())
    pageSize,
    numFrames,
    numPages,
    segments,     \* sequence of [base, limit]; segment index i is segments[i+1]
    pageTable,    \* [0..numPages-1 -> [frameNumber, valid]]
    outside,      \* the program has indexed pageTable past its end and lived
    pastEnd,      \* the memory of pageTable[numPages], one entry past the end
                  \* of the vector, once the program has touched it
    frameTable,   \* [0..numFrames-1 -> page number or -1]
    policy,
    fifoQueue,    \* front is Head
    lruList,      \* most recently used at the front (index 1)
    lruMap,       \* the keys of lruMap (each maps to its node of lruList)
    pageFaults,
    accesses,
    out,          \* what the last accessAddress call printed
    hist          \* history: the order of loads and of uses, the last call's
                  \* victim and the counters at its entry

vars == <<phase, inMemSize, inPageSize, inSegs, pageSize, numFrames, numPages,
          segments, pageTable, outside, pastEnd, frameTable, policy, fifoQueue,
          lruList, lruMap, pageFaults, accesses, out, hist>>

inputs == <<inMemSize, inPageSize, inSegs>>

\* the fields of VirtualMemoryManager (and the memory behind pageTable)
engine == <<pageSize, numFrames, numPages, segments, pageTable, outside,
            pastEnd, frameTable, policy, fifoQueue, lruList, lruMap,
            pageFaults, accesses>>

\* ------------------------------------------------------- construction
\* PageTableEntry(): frameNumber(-1), valid(false)
PageTableEntry == [frameNumber |-> -1, valid |-> FALSE]

\* What the uninitialised memory past the end of pageTable may hold when it is
\* first read: the valid byte clear, or set with a frame number inside the
\* frame table (0) or outside it (nf).
GarbageEntries(nf) ==
    {[frameNumber |-> 0, valid |-> FALSE]} \cup
    [frameNumber : {0, nf}, valid : {TRUE}]

\* size_t division and remainder where a zero divisor does not trap: the
\* quotient is 0 and the remainder the dividend
Quot(a, b) == IF b = 0 THEN 0 ELSE a \div b
Rem(a, b) == IF b = 0 THEN a ELSE a % b

\* mutant: the bases are counted from 1
MakeSegmentsFromOne(n, segSize) ==
    [i \in 1..n |-> [base |-> i * segSize, limit |-> segSize]]

\* segments.emplace_back(segNames[i], i * segSize, segSize) for i < nSegments
MakeSegments(n, segSize) ==
    [i \in 1..n |-> [base |-> (i - 1) * segSize, limit |-> segSize]]

NoOutput ==
    [kind |-> "none", segIdx |-> 0, offset |-> 0, logicalAddr |-> 0,
     pageNum |-> 0, pageOffset |-> 0, frameNum |-> -1, physicalAddr |-> 0,
     fault |-> FALSE]

NoHistory ==
    [loadOrder |-> <<>>, useOrder |-> <<>>, evicted |-> -1,
     repeatedHit |-> FALSE, accBefore |-> 0, pfBefore |-> 0]

\* The configurations main() may be given: every small triple (memSize,
\* pageSize, nSegments), and 1024 bytes in pages of 256 under one segment name
\* or more, whose engine is asked for the addresses 10 bytes into one of its
\* pages and at the end of a segment.
Large == [memSize |-> 1024, pageSize |-> 256]

Configs ==
    ((0..MaxMem) \X (0..MaxPageSz) \X (0..MaxSegs)) \cup
    ({Large.memSize} \X {Large.pageSize} \X (1..MaxSegs))

Offsets ==
    IF inMemSize = Large.memSize
    THEN {k * Large.pageSize + 10 : k \in 0..3} \cup {512, 1024}
    ELSE 0..MaxMem

\* the accepted calls explored: one more on the large configuration, where
\* filling the four frames takes four of them
MaxCalls ==
    IF inMemSize = Large.memSize THEN MaxAccesses + 1 ELSE MaxAccesses

\* main() before the constructor runs: the numbers read from the console.
Init ==
    /\ phase = "config"
    /\ \E c \in Configs :
           inMemSize = c[1] /\ inPageSize = c[2] /\ inSegs = c[3]
    /\ policy \in {FIFO, LRU}
    /\ pageSize = 0
    /\ numFrames = 0
    /\ numPages = 0
    /\ segments = <<>>
    /\ pageTable = <<>>
    /\ outside = FALSE
    /\ pastEnd = PageTableEntry
    /\ frameTable = <<>>
    /\ fifoQueue = <<>>
    /\ lruList = <<>>
    /\ lruMap = {}
    /\ pageFaults = 0
    /\ accesses = 0
    /\ out = NoOutput
    /\ hist = NoHistory

\* the process is killed
Crash ==
    /\ phase' = "crashed"
    /\ UNCHANGED <<inputs, engine, out, hist>>

\* mutant: half as many frames as pages (rounded up)
FrameCountHalved(mem, pg) == (Quot(mem, pg) + 1) \div 2

\* numFrames(memSize / pageSize)
FrameCount(mem, pg) == Quot(mem, pg)

\* the constructor's body, every division yielding a value
Constructed ==
    /\ phase' = "running"
    /\ pageSize' = inPageSize
    /\ numFrames' = FrameCount(inMemSize, inPageSize)
    /\ numPages' = Quot(inMemSize, inPageSize)
    /\ pageTable' = [p \in 0..(numPages' - 1) |-> PageTableEntry]
    /\ frameTable' = [f \in 0..(numFrames' - 1) |-> -1]
    /\ segments' = MakeSegments(inSegs, Quot(inMemSize, inSegs))
    /\ pageFaults' = 0
    /\ accesses' = 0
    /\ UNCHANGED <<inputs, policy, outside, pastEnd, fifoQueue, lruList,
                   lruMap, out, hist>>

\* VirtualMemoryManager::VirtualMemoryManager.  memSize / pageSize and
\* memSize / nSegments with a zero divisor: the division traps, or it yields 0.
Construct ==
    /\ phase = "config"
    /\ \/ Constructed
       \/ /\ inPageSize = 0 \/ inSegs = 0
          /\ Crash

\* ---------------------------------------------------------- page fault
\* pageTable[p] as the code reads it: an index past the end reads the memory
\* there, pe.
Entry(pt, pe, p) == IF p \in DOMAIN pt THEN pt[p] ELSE pe

\* pageTable[p] = e: the table, and the memory past its end, after the store
StoreTable(pt, p, e) == IF p \in DOMAIN pt THEN [pt EXCEPT ![p] = e] ELSE pt
StorePastEnd(pt, pe, p, e) == IF p \in DOMAIN pt THEN pe ELSE e

\* frameTable[f] = v
StoreFrame(ft, f, v) == [ft EXCEPT ![f] = v]

\* mutant: the scan runs from the last frame down
LastFreeFrame(ft) ==
    IF \E i \in DOMAIN ft : ft[i] = -1
    THEN CHOOSE i \in DOMAIN ft :
             /\ ft[i] = -1
             /\ \A j \in DOMAIN ft : ft[j] = -1 => i >= j
    ELSE -1

\* the scan of handlePageFault: the first i with frameTable[i] == -1, else -1
FirstFreeFrame(ft) ==
    IF \E i \in DOMAIN ft : ft[i] = -1
    THEN CHOOSE i \in DOMAIN ft :
             /\ ft[i] = -1
             /\ \A j \in DOMAIN ft : ft[j] = -1 => i <= j
    ELSE -1

\* the list without its first node holding p (lruList.erase(it->second): the
\* node lruMap[p] points to is the one pushed last, the first from the front)
EraseNode(list, p) ==
    IF \E i \in 1..Len(list) : list[i] = p
    THEN LET k == CHOOSE i \in 1..Len(list) :
                      list[i] = p /\ \A j \in 1..(i - 1) : list[j] # p
         IN SubSeq(list, 1, k - 1) \o SubSeq(list, k + 1, Len(list))
    ELSE list

\* VirtualMemoryManager::addLRU
addLRU(list, map, pageNum) ==
    [list |-> <<pageNum>> \o list, map |-> map \cup {pageNum}]

\* mutant: a hit does not move the page
updateLRUNever(list, map, pageNum) == [list |-> list, map |-> map]

\* VirtualMemoryManager::updateLRU
updateLRU(list, map, pageNum) ==
    IF pageNum \in map
    THEN [list |-> <<pageNum>> \o EraseNode(list, pageNum), map |-> map]
    ELSE [list |-> list, map |-> map]

\* the tracker of the active policy
Tracker == IF policy = FIFO THEN fifoQueue ELSE lruList

\* mutant: the FIFO victim is taken from the back of the queue
VictimOfBack(fifo, lru) == IF policy = FIFO THEN fifo[Len(fifo)] ELSE lru[Len(lru)]

\* fifoQueue.front() / lruList.back()
VictimOf(fifo, lru) == IF policy = FIFO THEN Head(fifo) ELSE lru[Len(lru)]

\* fifoQueue.pop()
PopFront(fifo) == Tail(fifo)

\* lruList.pop_back()
PopBack(lru) == SubSeq(lru, 1, Len(lru) - 1)

\* VirtualMemoryManager::handlePageFault on the current state, with pe the
\* memory past the end of pageTable.  The result holds the new tables and
\* trackers and the victim (-1: none).  front()/back() of an empty container
\* is undefined; no reachable state takes it (TLC would stop on it): with no
\* frame at all the call before it has already died.
handlePageFault(pageNum, pe) ==
    LET free == FirstFreeFrame(frameTable)
        evict == free = -1
        victimPage == IF evict THEN VictimOf(fifoQueue, lruList) ELSE -1
        fifo1 == IF evict /\ policy = FIFO
                 THEN PopFront(fifoQueue) ELSE fifoQueue
        lru1 == IF evict /\ policy = LRU THEN PopBack(lruList) ELSE lruList
        map1 == IF evict /\ policy = LRU THEN lruMap \ {victimPage} ELSE lruMap
        victimEntry == Entry(pageTable, pe, victimPage)
        freeFrame == IF evict THEN victimEntry.frameNumber ELSE free
        invalidated == [victimEntry EXCEPT !.valid = FALSE]
        pt1 == IF evict THEN StoreTable(pageTable, victimPage, invalidated)
               ELSE pageTable
        pe1 == IF evict
               THEN StorePastEnd(pageTable, pe, victimPage, invalidated)
               ELSE pe
        ft1 == IF evict THEN StoreFrame(frameTable, freeFrame, -1)
               ELSE frameTable
        loaded == [frameNumber |-> freeFrame, valid |-> TRUE]
        added == addLRU(lru1, map1, pageNum)
    IN [pt |-> StoreTable(pt1, pageNum, loaded),
        pe |-> StorePastEnd(pt1, pe1, pageNum, loaded),
        ft |-> StoreFrame(ft1, freeFrame, pageNum),
        fifo |-> IF policy = FIFO THEN Append(fifo1, pageNum) ELSE fifo1,
        lru |-> IF policy = LRU THEN added.list ELSE lru1,
        map |-> IF policy = LRU THEN added.map ELSE map1,
        victim |-> victimPage]

\* the result of a call that does not fault: nothing is loaded or evicted
NoFault(pe) ==
    [pt |-> pageTable, pe |-> pe, ft |-> frameTable, fifo |-> fifoQueue,
     lru |-> lruList, map |-> lruMap, victim |-> -1]

\* ------------------------------------------------------- accessAddress
\* the sequence with p moved to (or put at) its end
MoveToEnd(seq, p) == SelectSeq(seq, LAMBDA x : x # p) \o <<p>>

\* mutant: ++accesses sits before the argument checks
RejectCounted(kind, segIdx, offset) ==
    /\ out' = [NoOutput EXCEPT !.kind = kind, !.segIdx = segIdx,
                               !.offset = offset]
    /\ accesses' = accesses + 1
    /\ UNCHANGED <<phase, inputs, pageSize, numFrames, numPages, segments,
                   pageTable, outside, pastEnd, frameTable, policy, fifoQueue,
                   lruList, lruMap, pageFaults, hist>>

\* lines 121-129: the request is refused with a message and nothing else
Reject(kind, segIdx, offset) ==
    /\ out' = [NoOutput EXCEPT !.kind = kind, !.segIdx = segIdx,
                               !.offset = offset]
    /\ UNCHANGED <<phase, inputs, engine, hist>>

\* ++accesses
Accessed == accesses + 1

\* mutant: ++pageFaults sits outside the if
FaultCountAlways(wasValid) == pageFaults + 1

\* if (!pageTable[pageNum].valid) ++pageFaults
FaultCount(wasValid) == IF wasValid THEN pageFaults ELSE pageFaults + 1

\* mutant: the offset within the page is dropped
PhysicalAddrFrameBase(frameNum, pageOffset) == frameNum * pageSize

\* static_cast<size_t>(frameNum) * pageSize + pageOffset
PhysicalAddr(frameNum, pageOffset) == frameNum * pageSize + pageOffset

\* lines 130-143 once handlePageFault (if called) has returned r
Translate(segIdx, offset, logicalAddr, pageNum, pageOffset, wasValid, r) ==
    LET used == IF policy = LRU THEN updateLRU(r.lru, r.map, pageNum)
                ELSE [list |-> r.lru, map |-> r.map]
        frameNum == Entry(r.pt, r.pe, pageNum).frameNumber
    IN /\ accesses' = Accessed
       /\ pageFaults' = FaultCount(wasValid)
       /\ pageTable' = r.pt
       /\ pastEnd' = r.pe
       /\ outside' = (outside \/ pageNum \notin DOMAIN pageTable)
       /\ frameTable' = r.ft
       /\ fifoQueue' = r.fifo
       /\ lruList' = used.list
       /\ lruMap' = used.map
       /\ out' = [kind |-> "ok", segIdx |-> segIdx, offset |-> offset,
                  logicalAddr |-> logicalAddr, pageNum |-> pageNum,
                  pageOffset |-> pageOffset, frameNum |-> frameNum,
                  physicalAddr |-> PhysicalAddr(frameNum, pageOffset),
                  fault |-> ~wasValid]
       /\ hist' = [loadOrder |-> IF wasValid THEN hist.loadOrder
                                 ELSE MoveToEnd(hist.loadOrder, pageNum),
                   useOrder |-> MoveToEnd(hist.useOrder, pageNum),
                   evicted |-> r.victim,
                   repeatedHit |-> /\ out.kind = "ok" /\ ~out.fault
                                   /\ out.segIdx = segIdx
                                   /\ out.offset = offset,
                   accBefore |-> accesses, pfBefore |-> pageFaults]
       /\ UNCHANGED <<phase, inputs, pageSize, numFrames, numPages, segments,
                      policy>>

\* mutant: offset > seg.limit
OutOfBoundsOffByOne(seg, offset) == offset > seg.limit

\* if (offset >= seg.limit)
OutOfBounds(seg, offset) == offset >= seg.limit

\* VirtualMemoryManager::accessAddress(segIdx, offset).  pageTable[pageNum]
\* with pageNum past the end of the table is undefined: an empty vector holds
\* no memory at all and the read kills the process; otherwise the first such
\* read either aborts (a bounds-checked build) or finds whatever the memory
\* behind the table holds, and the program uses that memory from then on.
accessAddress(segIdx, offset) ==
    IF segIdx >= Len(segments)
    THEN Reject("InvalidSegment", segIdx, 0)
    ELSE IF OutOfBounds(segments[segIdx + 1], offset)
    THEN Reject("OffsetOutOfBounds", segIdx, offset)
    ELSE
      LET seg == segments[segIdx + 1]
          logicalAddr == seg.base + offset
          pageNum == Quot(logicalAddr, pageSize)
          pageOffset == Rem(logicalAddr, pageSize)
          past == pageNum \notin DOMAIN pageTable
          first == past /\ ~outside
      IN /\ accesses < MaxCalls
         /\ \/ /\ first
               /\ Crash
            \/ /\ ~(past /\ numPages = 0)
               /\ \E pe \in IF first THEN GarbageEntries(numFrames)
                                     ELSE {pastEnd} :
                    IF Entry(pageTable, pe, pageNum).valid
                    THEN Translate(segIdx, offset, logicalAddr, pageNum,
                                   pageOffset, TRUE, NoFault(pe))
                    ELSE Translate(segIdx, offset, logicalAddr, pageNum,
                                   pageOffset, FALSE,
                                   handlePageFault(pageNum, pe))

\* main(): case ACCESS_ADDRESS, with any two numbers typed in
AccessAddress ==
    /\ phase = "running"
    /\ \E segIdx \in 0..MaxSegs, offset \in Offsets :
           accessAddress(segIdx, offset)

Next == Construct \/ AccessAddress

Spec == Init /\ [][Next]_vars

\* ============================================================ properties
Running == phase = "running"

\* a step of the running engine that returns to the caller
Returned == phase = "running" /\ phase' = "running"

Rejections == {"InvalidSegment", "OffsetOutOfBounds"}

ResidentPages == {p \in DOMAIN pageTable : pageTable[p].valid}
OccupiedFrames == {f \in DOMAIN frameTable : frameTable[f] # -1}

\* pageTable[p].valid as a call entering now reads it, for a page whose entry
\* the program has touched
ValidNow(p) == Entry(pageTable, pastEnd, p).valid

\* the pages whose valid bit is set, past the end of the table included
AllResident ==
    ResidentPages \cup
    (IF outside /\ pastEnd.valid THEN {numPages} ELSE {})

\* the configuration the specification calls invalid
InvalidConfig ==
    \/ inMemSize = 0
    \/ inPageSize = 0
    \/ inSegs = 0
    \/ inMemSize < inPageSize

\* pageSize divides memSize: the page table covers every logical address
Aligned == inPageSize > 0 /\ inMemSize % inPageSize = 0

\* C1: at all times the resident pages are as many as the occupied frames and
\* the page table and the frame table are inverse to each other on them.
C1_TablesInverse ==
    Running =>
        /\ Cardinality(ResidentPages) = Cardinality(OccupiedFrames)
        /\ \A p \in DOMAIN pageTable, f \in DOMAIN frameTable :
               (pageTable[p].valid /\ pageTable[p].frameNumber = f)
                   <=> frameTable[f] = p

\* C2: an accepted request reports logicalAddress = base + offset and
\* physicalAddress = frame * pageSize + logicalAddress % pageSize, frame being
\* the one frame that holds page logicalAddress / pageSize on return.
C2_Translation ==
    (Running /\ out.kind = "ok") =>
        /\ pageSize > 0
        /\ out.logicalAddr = segments[out.segIdx + 1].base + out.offset
        /\ out.pageNum = out.logicalAddr \div pageSize
        /\ out.frameNum \in DOMAIN frameTable
        /\ frameTable[out.frameNum] = out.pageNum
        /\ \A f \in DOMAIN frameTable :
               frameTable[f] = out.pageNum => f = out.frameNum
        /\ out.physicalAddr =
               out.frameNum * pageSize + (out.logicalAddr % pageSize)

\* the request the last call echoes has valid arguments (an invalid segment
\* index echoes no offset)
EchoValid(o) ==
    /\ o.segIdx < Len(segments)
    /\ o.offset < segments[o.segIdx + 1].limit

C4_RejectUnchanged ==
    [][(Returned /\ ~EchoValid(out')) =>
           /\ out'.kind \in Rejections
           /\ UNCHANGED engine]_vars

\* C4 witness: a request was refused after the engine had loaded a page
C4_Witness ==
    /\ Running /\ out.kind = "OffsetOutOfBounds"
    /\ accesses > 0 /\ OccupiedFrames # {}

\* C5: in every segment the request with offset == limit is refused as out of
\* bounds, and the request with offset == limit - 1 is accepted and translated.
C5_OffsetBoundary ==
    [][\A s \in 0..(Len(segments) - 1) :
           LET limit == segments[s + 1].limit
           IN /\ (Running /\ accessAddress(s, limit))
                     => out'.kind = "OffsetOutOfBounds"
              /\ (Running /\ limit > 0 /\ accessAddress(s, limit - 1))
                     => (phase' = "running" /\ out'.kind = "ok"
                         /\ out'.segIdx = s /\ out'.offset = limit - 1)]_vars

\* C6: an invalid configuration (zero memory size, zero page size, no segment,
\* fewer bytes than one page) is refused: no engine runs on it.
C6_InvalidConfigRejected == InvalidConfig => phase # "running"

\* the page of a request with valid arguments
PageOf(s, o) == Quot(segments[s + 1].base + o, pageSize)

\* the requests with valid arguments
ValidRequests ==
    {r \in (0..(Len(segments) - 1)) \X (0..MaxMem) :
         r[2] < segments[r[1] + 1].limit}

\* C7: whenever a valid request would fault, a free frame exists or the tracker
\* holds a victim; and when a call has faulted, the page is on return resident
\* in a frame of [0, numFrames).
C7_FaultNeverFails ==
    Running =>
        /\ \A r \in ValidRequests :
               PageOf(r[1], r[2]) \notin AllResident
                   => \/ FirstFreeFrame(frameTable) # -1
                      \/ Tracker # <<>>
        /\ (out.kind = "ok" /\ out.fault) =>
               /\ out.frameNum \in 0..(numFrames - 1)
               /\ ValidNow(out.pageNum)
               /\ Entry(pageTable, pastEnd, out.pageNum).frameNumber
                      = out.frameNum

\* position of p in the order (0: not in it)
Pos(order, p) ==
    IF \E i \in 1..Len(order) : order[i] = p
    THEN CHOOSE i \in 1..Len(order) : order[i] = p
    ELSE 0

\* v is resident and no resident page comes before it in the order
OldestResident(order, v) ==
    /\ v \in AllResident
    /\ Pos(order, v) > 0
    /\ \A q \in AllResident :
           Pos(order, q) > 0 => Pos(order, v) <= Pos(order, q)

\* C8: under FIFO the page evicted by a fault is, of the pages resident at the
\* fault, the one loaded earliest, whatever hits came in between.
C8_FifoEvictsEarliestLoaded ==
    [][(Returned /\ policy = FIFO /\ accesses' = accesses + 1
        /\ hist'.evicted # -1)
           => OldestResident(hist.loadOrder, hist'.evicted)]_vars

\* C8 witness: FIFO has evicted a page that was not the least recently used
\* one: it was hit after another resident page's last use
C8_Witness ==
    /\ Running /\ policy = FIFO /\ out.kind = "ok" /\ out.fault
    /\ hist.evicted # -1
    /\ Pos(hist.useOrder, hist.evicted) > 1

\* C9: under LRU the page evicted by a fault is, of the pages resident at the
\* fault, the one whose last access (load or hit) is oldest.
C9_LruEvictsLeastRecent ==
    [][(Returned /\ policy = LRU /\ accesses' = accesses + 1
        /\ hist'.evicted # -1)
           => OldestResident(hist.useOrder, hist'.evicted)]_vars

\* C9 witness: LRU has evicted a page that was not the earliest loaded one
C9_Witness ==
    /\ Running /\ policy = LRU /\ out.kind = "ok" /\ out.fault
    /\ hist.evicted # -1
    /\ Pos(hist.loadOrder, hist.evicted) > 1

\* C10: a hit repeated with the same (segIdx, offset) adds 2 to accesses over
\* the two calls and nothing to pageFaults, reports the same physical address
\* both times, and neither call changes the page table or the frame table.
C10_RepeatedHit ==
    [][Returned =>
        /\ (out'.kind = "ok" /\ ~out'.fault /\ accesses' # accesses)
               => (pageTable' = pageTable /\ frameTable' = frameTable)
        /\ (/\ out.kind = "ok" /\ ~out.fault
            /\ out'.kind = "ok" /\ accesses' # accesses
            /\ out'.segIdx = out.segIdx /\ out'.offset = out.offset)
               => /\ ~out'.fault
                  /\ accesses' = hist.accBefore + 2
                  /\ pageFaults' = hist.pfBefore
                  /\ out'.physicalAddr = out.physicalAddr
                  /\ out'.frameNum = out.frameNum]_vars

\* C10 witness: the last call repeated the hit before it
C10_Witness ==
    /\ Running /\ out.kind = "ok" /\ ~out.fault /\ hist.repeatedHit
    /\ out.pageNum \in ResidentPages
    /\ accesses = 3 /\ pageFaults = 1

\* the engine of the scenarios: 1024 bytes in pages of 256, four frames
Scenario ==
    /\ Running
    /\ inMemSize = Large.memSize /\ inPageSize = Large.pageSize
    /\ numFrames = 4

\* the request (s, o) names a segment and addresses a byte of page p
Addresses(s, o, p) ==
    /\ s < Len(segments)
    /\ Quot(segments[s + 1].base + o, pageSize) = p

\* C11: with four frames under FIFO, once pages 0, 1, 2, 3 have been loaded in
\* that order and fill the frames, a request for page 4 is served: it evicts
\* page 0 and frame 0 goes to page 4.
C11_FifoScenario ==
    [][(Scenario /\ policy = FIFO /\ fifoQueue = <<0, 1, 2, 3>>
        /\ frameTable = [f \in 0..3 |-> f])
           => \A s \in 0..MaxSegs, o \in Offsets :
                  (Addresses(s, o, 4) /\ accessAddress(s, o))
                      => /\ out'.kind = "ok" /\ out'.pageNum = 4
                         /\ hist'.evicted = 0
                         /\ frameTable'[0] = 4]_vars

\* C12: with four frames under LRU, once pages 0, 1, 2, 3 have been loaded and
\* page 0 has then been hit, a request for page 4 is served and evicts page 1,
\* page 0 staying resident.
C12_LruScenario ==
    [][(Scenario /\ policy = LRU /\ lruList = <<0, 3, 2, 1>>
        /\ out.kind = "ok" /\ ~out.fault /\ out.pageNum = 0)
           => \A s \in 0..MaxSegs, o \in Offsets :
                  (Addresses(s, o, 4) /\ accessAddress(s, o))
                      => /\ out'.kind = "ok" /\ out'.pageNum = 4
                         /\ hist'.evicted = 1
                         /\ pageTable'[0].valid]_vars

\* C13: on 1024 bytes in pages of 256 under two segments (limit 512 at base 0
\* and at base 512) the very first access, (segment 1, offset 10), has logical
\* address 522, page 2, page offset 10, faults, lands in frame 0 and reports
\* physical address 10.
C13_ConcreteScenario ==
    (Scenario /\ inSegs = 2 /\ accesses = 1
     /\ out.kind = "ok" /\ out.segIdx = 1 /\ out.offset = 10)
        => /\ numPages = 4
           /\ segments = <<[base |-> 0, limit |-> 512],
                           [base |-> 512, limit |-> 512]>>
           /\ out.logicalAddr = 522
           /\ out.pageNum = 2
           /\ out.pageOffset = 10
           /\ out.fault /\ pageFaults = 1
           /\ out.frameNum = 0
           /\ frameTable[0] = 2
           /\ out.physicalAddr = 10

\* C13 witness: that first access has been made and reported
C13_Witness ==
    /\ Scenario /\ inSegs = 2 /\ accesses = 1
    /\ out.kind = "ok" /\ out.segIdx = 1 /\ out.offset = 10
    /\ out.physicalAddr = 10

\* C14: at all times after construction with n segment names there are n
\* segments of limit memSize / n, segment i at base i * limit, each range
\* [base, base + limit) starting where the one before ends, no two of them
\* overlapping; the inputs being fixed, the segment table never changes.
C14_SegmentsPartition ==
    Running =>
        /\ Len(segments) = inSegs
        /\ \A i \in 1..Len(segments) :
               /\ segments[i].limit = inMemSize \div inSegs
               /\ segments[i].base = (i - 1) * segments[i].limit
               /\ segments[i].base + segments[i].limit <= inMemSize
               /\ i < Len(segments) =>
                      segments[i + 1].base
                          = segments[i].base + segments[i].limit
        /\ \A i, j \in 1..Len(segments) :
               i < j => segments[i].base + segments[i].limit
                            <= segments[j].base

\* C14 witness: two segments of a memory they do not divide, after accesses
\* to both
C14_Witness ==
    /\ Running /\ inSegs = 2 /\ inMemSize = 5
    /\ segments[2].base = 2
    /\ accesses >= 2 /\ out.kind = "ok" /\ out.segIdx = 1

\* C15: in every constructed engine the page number of every request with
\* valid arguments lies in [0, numPages), numPages being memSize / pageSize, so
\* pageTable is only indexed inside its bounds.
C15_PageNumberInBounds ==
    Running =>
        /\ numPages = Quot(inMemSize, inPageSize)
        /\ DOMAIN pageTable = 0..(numPages - 1)
        /\ \A r \in ValidRequests :
               PageOf(r[1], r[2]) \in 0..(numPages - 1)

\* a step in which an accepted call took a page fault
Faulted ==
    /\ Returned
    /\ accesses' = accesses + 1
    /\ out'.kind = "ok" /\ out'.fault

\* the empty frames
FreeFrames == {f \in DOMAIN frameTable : frameTable[f] = -1}

\* C16: a page fault taken while some frame is empty loads the page into the
\* empty frame of smallest number, touches no other frame and evicts no
\* resident page.
C16_LowestFreeFrame ==
    [][(Faulted /\ FreeFrames # {})
           => /\ \A f \in FreeFrames : out'.frameNum <= f
              /\ out'.frameNum \in FreeFrames
              /\ frameTable' =
                     [frameTable EXCEPT ![out'.frameNum] = out'.pageNum]
              /\ hist'.evicted = -1
              /\ \A p \in AllResident : p \in AllResident']_vars

\* C16 witness: a fault has filled frame 1 while a higher frame was empty, a
\* page loaded earlier staying in frame 0
C16_Witness ==
    /\ Running /\ out.kind = "ok" /\ out.fault
    /\ out.frameNum = 1 /\ numFrames >= 3
    /\ frameTable[0] # -1 /\ frameTable[2] = -1

\* the pages a sequence holds
Members(seq) == {seq[i] : i \in 1..Len(seq)}

\* no page twice in the sequence
NoDuplicate(seq) ==
    \A i, j \in 1..Len(seq) : seq[i] = seq[j] => i = j

\* C17: at all times the tracker of the active policy holds no page twice and
\* holds exactly the resident pages, so its length is numFrames minus the
\* number of empty frames; under LRU the keys of lruMap are the pages of
\* lruList.
C17_TrackerConsistent ==
    Running =>
        /\ NoDuplicate(Tracker)
        /\ Members(Tracker) = AllResident
        /\ Len(Tracker) = numFrames - Cardinality(FreeFrames)
        /\ policy = LRU => lruMap = Members(lruList)

\* a step in which a call with valid arguments returned
Served ==
    /\ Returned
    /\ accesses' = accesses + 1
    /\ out'.kind = "ok"

\* the sequence without the pages p and q
Without(seq, p, q) == SelectSeq(seq, LAMBDA x : x # p /\ x # q)

\* C18: under LRU every served call, hit or load, leaves the accessed page at
\* the front of lruList and the other pages (less the victim, if any) in the
\* order they had; under FIFO a hit leaves fifoQueue as it was.
C18_RecencyOrder ==
    [][Served =>
        /\ policy = LRU =>
               /\ lruList' # <<>>
               /\ Head(lruList') = out'.pageNum
               /\ Tail(lruList')
                      = Without(lruList, out'.pageNum, hist'.evicted)
        /\ (policy = FIFO /\ ~out'.fault) => fifoQueue' = fifoQueue]_vars

\* the pages the segments address: the segments run from 0 to the end of the
\* last one without a gap
AddressablePages ==
    LET top == IF segments = <<>> THEN 0
               ELSE Len(segments) * segments[1].limit
    IN IF top = 0 THEN {} ELSE 0..Quot(top - 1, pageSize)

\* a page becomes resident only in the call that faults on it, and stops
\* being resident only as that call's victim
LifecycleStep ==
    Returned =>
        \A p \in AllResident \cup AllResident' :
            /\ (p \notin AllResident /\ p \in AllResident')
                   => (Faulted /\ out'.pageNum = p)
            /\ (p \in AllResident /\ p \notin AllResident')
                   => (Faulted /\ hist'.evicted = p)

\* Resident is not terminal: while pages are resident, some page the segments
\* address is not, so that a fault can still come and a victim be taken
NotTerminal ==
    (Running /\ AllResident # {})
        => \E p \in AddressablePages : p \notin AllResident

\* C19: a page goes from Unloaded to Resident only by a fault that loads it and
\* from Resident to Unloaded only by its eviction, and Resident is never a
\* terminal state: a resident page can still be evicted and reloaded later.
C19_PageLifecycle == [][LifecycleStep]_vars /\ []NotTerminal

\* with pageSize dividing memSize: no page has been evicted, the occupied
\* frames are 0..pageFaults-1, one fault per resident page and no more faults
\* than pages, and a free frame is left while an addressable page is not
\* resident
AlignedState ==
    /\ hist.evicted = -1
    /\ pageFaults <= numPages
    /\ pageFaults = Cardinality(ResidentPages)
    /\ OccupiedFrames = 0..(pageFaults - 1)
    /\ AddressablePages \subseteq DOMAIN pageTable
    /\ (\E p \in AddressablePages : ~pageTable[p].valid) => FreeFrames # {}

\* a resident page stays resident in its frame, and a fault is taken only on
\* a page not resident before, into a frame that was free
AlignedStep ==
    /\ \A p \in ResidentPages : pageTable'[p] = pageTable[p]
    /\ Faulted => /\ out'.pageNum \notin ResidentPages
                  /\ out'.frameNum \in FreeFrames
                  /\ pageFaults' = pageFaults + 1

\* C20: when pageSize divides memSize the eviction branch is never taken: a
\* free frame exists at every fault, a page once resident stays resident in
\* the same frame, each page faults at most once, pageFaults never exceeds
\* numPages and the occupied frames are exactly 0..pageFaults-1.
C20_NoEvictionWhenAligned ==
    /\ []((Running /\ Aligned) => AlignedState)
    /\ [][(Returned /\ Aligned) => AlignedStep]_vars

\* C20 witness: every page of an engine of two pages or more has faulted once
\* and a hit has followed
C20_Witness ==
    /\ Running /\ Aligned /\ numPages >= 2
    /\ pageFaults = numPages /\ accesses > pageFaults
    /\ out.kind = "ok" /\ ~out.fault
    /\ FreeFrames = {}

====
